---- MODULE Spec2Model ----
(***************************************************************************)
(* Model of vlan-transform.ts: the VLAN configuration compiler             *)
(* (filterConfig, generateHttpRequests) and the provisioning executor of   *)
(* the command handler (executeHttpRequest, the execute and save loops).   *)
(*                                                                         *)
(* Strings the program inspects character by character (VLAN names, VLAN   *)
(* filter arguments) are sequences of one-character strings; strings it    *)
(* only compares or copies (switch keys, template names, addresses) are    *)
(* plain strings.  A request body is the portParams array of its           *)
(* "key=value" parameters, i.e. the body before join("&").                 *)
(***************************************************************************)
EXTENDS Integers, Sequences, FiniteSets, TLC

\* ------------------------------------------------------------------------
\* Bounds of the model
\* ------------------------------------------------------------------------
MaxVlans == 2      \* entries of config.vlans
MaxPorts == 2      \* ports of a config, all switches together
MaxSwitches == 2   \* entries of config.switches

\* ------------------------------------------------------------------------
\* Inputs
\* ------------------------------------------------------------------------
VlanIds == {5, 10, 20}
VlanNameOf == (5 :> <<"1", "0">>) @@ (10 :> <<"D", "a">>) @@ (20 :> <<"a", "&", " ">>)
\* config.templates: access and trunk templates; p10p5 marks two VLANs pvid,
\* of which the smaller id may come later in the document
Templates ==
     ("t10" :> (10 :> "tagged"))
  @@ ("p10" :> (10 :> "pvid"))
  @@ ("t10p20" :> ((10 :> "tagged") @@ (20 :> "pvid")))
  @@ ("p10p5" :> ((10 :> "pvid") @@ (5 :> "pvid")))
\* template names a port may carry; "ghost" is not a key of config.templates
TemplateRefs == DOMAIN Templates \cup {"ghost"}
SwitchKeys == <<"sw1", "sw2", "sw3">>
AddressOf == ("sw1" :> "10.0.0.1") @@ ("sw2" :> "10.0.0.2") @@ ("sw3" :> "10.0.0.3")
AuthOf == ("sw1" :> [type |-> "xike", user |-> "admin", pass |-> "pw1", resp |-> "r1"])
       @@ ("sw2" :> [type |-> "xike", user |-> "admin", pass |-> "pw2", resp |-> "r2"])
       @@ ("sw3" :> [type |-> "xike", user |-> "root", pass |-> "pw3", resp |-> "r3"])

\* ------------------------------------------------------------------------
\* Generic helpers
\* ------------------------------------------------------------------------
Range(s) == {s[i] : i \in 1..Len(s)}

SeqsUpTo(S, n) == UNION {[1..k -> S] : k \in 0..n}

InjSeqsUpTo(S, n) == {s \in SeqsUpTo(S, n) : \A i, j \in 1..Len(s) : i # j => s[i] # s[j]}

RECURSIVE SumSeq(_)
SumSeq(s) == IF s = <<>> THEN 0 ELSE Head(s) + SumSeq(Tail(s))

RECURSIVE Flatten(_)
Flatten(ss) == IF ss = <<>> THEN <<>> ELSE Head(ss) \o Flatten(Tail(ss))

RECURSIVE JoinChars(_)
JoinChars(cs) == IF cs = <<>> THEN "" ELSE Head(cs) \o JoinChars(Tail(cs))

\* ------------------------------------------------------------------------
\* JavaScript library functions used by the program
\* ------------------------------------------------------------------------
UpperChars == <<"A","B","C","D","E","F","G","H","I","J","K","L","M",
                "N","O","P","Q","R","S","T","U","V","W","X","Y","Z">>
LowerChars == <<"a","b","c","d","e","f","g","h","i","j","k","l","m",
                "n","o","p","q","r","s","t","u","v","w","x","y","z">>
DigitChars == <<"0","1","2","3","4","5","6","7","8","9">>
MarkChars == {"-", "_", ".", "!", "~", "*", "'", "(", ")"}

\* String.prototype.toLowerCase, per character
ToLowerChar(c) ==
  IF \E i \in 1..26 : UpperChars[i] = c
  THEN LowerChars[CHOOSE i \in 1..26 : UpperChars[i] = c]
  ELSE c

toLowerCase(s) == [i \in 1..Len(s) |-> ToLowerChar(s[i])]

\* encodeURIComponent: unreserved characters are kept, every other
\* character is replaced by its percent-encoded UTF-8 bytes.
PercentCode == (" " :> "%20") @@ ("&" :> "%26") @@ ("=" :> "%3D") @@ ("%" :> "%25")
            @@ ("+" :> "%2B") @@ ("/" :> "%2F") @@ ("?" :> "%3F") @@ ("#" :> "%23")

EncodeChar(c) ==
  IF c \in Range(UpperChars) \cup Range(LowerChars) \cup Range(DigitChars) \cup MarkChars
  THEN c ELSE PercentCode[c]

encodeURIComponent(s) == JoinChars([i \in 1..Len(s) |-> EncodeChar(s[i])])

\* ------------------------------------------------------------------------
\* JavaScript objects
\* ------------------------------------------------------------------------
\* config.vlans is an object with integer keys: a sequence of [id, name]
\* in property creation order.  Object.entries does not enumerate such an
\* object in creation order: integer keys come first, in ascending numeric
\* order (OrdinaryOwnPropertyKeys).  config.switches has keys that are not
\* integers and is enumerated in creation order: it is the sequence of its
\* switches, each carrying its key.
RECURSIVE SortById(_)
SortById(es) ==
  IF es = <<>> THEN <<>>
  ELSE LET m == CHOOSE i \in 1..Len(es) : \A j \in 1..Len(es) : es[i].id <= es[j].id
       IN <<es[m]>> \o SortById(SubSeq(es, 1, m - 1) \o SubSeq(es, m + 1, Len(es)))

\* enumeration in property creation order, as for non-integer keys
ObjectEntries_InsertionOrder(vlans) == vlans

ObjectEntries(vlans) == SortById(vlans)

\* parseInt(string) without radix: leading white space is skipped, then an
\* optional sign, then an optional 0x/0X prefix selecting radix 16, then the
\* longest prefix of digits of the radix; NaN when there is no digit.
RECURSIVE SkipSpaces(_)
SkipSpaces(s) == IF s # <<>> /\ Head(s) = " " THEN SkipSpaces(Tail(s)) ELSE s

DigitVal(c) ==
  IF \E i \in 1..10 : DigitChars[i] = c
  THEN (CHOOSE i \in 1..10 : DigitChars[i] = c) - 1
  ELSE IF \E i \in 1..26 : LowerChars[i] = ToLowerChar(c)
       THEN (CHOOSE i \in 1..26 : LowerChars[i] = ToLowerChar(c)) + 9
       ELSE 99

RECURSIVE ParseDigits(_, _, _, _)
ParseDigits(s, radix, acc, seen) ==
  IF s # <<>> /\ DigitVal(Head(s)) < radix
  THEN ParseDigits(Tail(s), radix, acc * radix + DigitVal(Head(s)), TRUE)
  ELSE [nan |-> ~seen, val |-> acc]

parseInt(str) ==
  LET s0 == SkipSpaces(str)
      neg == s0 # <<>> /\ Head(s0) = "-"
      s1 == IF s0 # <<>> /\ Head(s0) \in {"-", "+"} THEN Tail(s0) ELSE s0
      hex == Len(s1) >= 2 /\ s1[1] = "0" /\ s1[2] \in {"x", "X"}
      r == IF hex THEN ParseDigits(Tail(Tail(s1)), 16, 0, FALSE)
                  ELSE ParseDigits(s1, 10, 0, FALSE)
  IN [nan |-> r.nan, val |-> IF neg THEN 0 - r.val ELSE r.val]

\* ------------------------------------------------------------------------
\* filterConfig
\* ------------------------------------------------------------------------
\* the callback of vlanFilters.some: does filter select the entry e of
\* config.vlans (vlanId is the property key, the decimal form of the id)
VlanMatches(e, filter) ==
  LET filterNum == parseInt(filter)
      isNumeric == ~filterNum.nan
      matchesId == isNumeric /\ ToString(filterNum.val) = ToString(e.id)
      matchesName == toLowerCase(e.name) = toLowerCase(filter)
  IN matchesId \/ matchesName

FilterVlans(vlans, vlanFilters) ==
  IF Len(vlanFilters) > 0
  THEN SelectSeq(ObjectEntries(vlans),
                 LAMBDA e : \E k \in 1..Len(vlanFilters) : VlanMatches(e, vlanFilters[k]))
  ELSE vlans

FilterSwitches(switches, switchFilters) ==
  IF Len(switchFilters) > 0
  THEN SelectSeq(switches, LAMBDA sw : sw.key \in Range(switchFilters))
  ELSE switches

\* a filter that also narrows the templates to those the retained switches
\* refer to
filterConfig_PrunesTemplates(config, switchFilters, vlanFilters) ==
  LET kept == FilterSwitches(config.switches, switchFilters)
      used == {port.template : port \in UNION {Range(kept[k].ports) : k \in 1..Len(kept)}}
  IN [vlans |-> FilterVlans(config.vlans, vlanFilters),
      templates |-> [t \in DOMAIN config.templates \cap used |-> config.templates[t]],
      switches |-> kept]

filterConfig(config, switchFilters, vlanFilters) ==
  [vlans |-> FilterVlans(config.vlans, vlanFilters),
   templates |-> config.templates,
   switches |-> FilterSwitches(config.switches, switchFilters)]

\* ------------------------------------------------------------------------
\* generateHttpRequests
\* ------------------------------------------------------------------------
MembershipUrl == "/vlan.cgi?page=static"
PvidUrl == "/vlan.cgi?page=port_based"
SaveUrl == "/save.cgi"

\* config.templates[portConfig.template] is defined
HasTemplate(config, port) == port.template \in DOMAIN config.templates

\* template[vlanIdNum]
TemplateStatus(template, vlanId) ==
  IF vlanId \in DOMAIN template THEN template[vlanId] ELSE "undefined"

\* the mapping the comment above the code states: 0 = not-member, 1 = pvid,
\* 2 = tagged
StatusValue_AsCommented(status) ==
  IF status = "pvid" THEN 1
  ELSE IF status = "tagged" THEN 2
  ELSE 0

StatusValue(status) ==
  IF status = "pvid" THEN 0
  ELSE IF status = "tagged" THEN 1
  ELSE 2

\* the vlanPort_ parameter of the port at the 0-based portIndex
PortParam(config, port, portIndex, vlanId) ==
  IF ~HasTemplate(config, port)
  THEN "vlanPort_" \o ToString(portIndex) \o "=0"
  ELSE "vlanPort_" \o ToString(portIndex) \o "="
         \o ToString(StatusValue(TemplateStatus(config.templates[port.template], vlanId)))

\* body.length of the joined body
BodyLength(params) ==
  IF params = <<>> THEN 0
  ELSE SumSeq([i \in 1..Len(params) |-> Len(params[i])]) + Len(params) - 1

Headers(sw, body) ==
  [Host |-> sw.address,
   UserAgent |-> "curl/8.7.1",
   Accept |-> "*/*",
   Cookie |-> sw.auth.user \o "=" \o sw.auth.resp,
   ContentLength |-> ToString(BodyLength(body)),
   ContentType |-> "application/x-www-form-urlencoded"]

MembershipRequest(config, sw, e) ==
  LET body == <<"vid=" \o ToString(e.id), "name=" \o encodeURIComponent(e.name)>>
              \o [i \in 1..Len(sw.ports) |-> PortParam(config, sw.ports[i], i - 1, e.id)]
  IN [method |-> "POST", url |-> MembershipUrl, headers |-> Headers(sw, body), body |-> body]

MembershipRequests(config, sw) ==
  LET entries == ObjectEntries(config.vlans)
  IN [k \in 1..Len(entries) |-> MembershipRequest(config, sw, entries[k])]

\* a PVID command that counts the ports from 1
PvidRequest_PortsFromOne(sw, portIndex, vlanId) ==
  LET body == <<"ports=" \o ToString(portIndex + 1), "pvid=" \o ToString(vlanId),
                "vlan_accept_frame_type=0">>
  IN [method |-> "POST", url |-> PvidUrl, headers |-> Headers(sw, body), body |-> body]

PvidRequest(sw, portIndex, vlanId) ==
  LET body == <<"ports=" \o ToString(portIndex), "pvid=" \o ToString(vlanId),
                "vlan_accept_frame_type=0">>
  IN [method |-> "POST", url |-> PvidUrl, headers |-> Headers(sw, body), body |-> body]

\* the inner loop without its break
PvidVlansOfPort_NoBreak(config, template) ==
  SelectSeq(ObjectEntries(config.vlans), LAMBDA e : TemplateStatus(template, e.id) = "pvid")

\* the inner loop of the PVID pass: the entries of config.vlans the
\* template marks pvid, cut at the first one by the break
PvidVlansOfPort(config, template) ==
  LET entries == ObjectEntries(config.vlans)
      hits == SelectSeq(entries, LAMBDA e : TemplateStatus(template, e.id) = "pvid")
  IN SubSeq(hits, 1, IF Len(hits) > 0 THEN 1 ELSE 0)

\* the PVID pass driven by the entries of the template instead of the
\* entries of config.vlans
PvidRequestsOfPort_FromTemplate(config, sw, portIndex) ==
  LET port == sw.ports[portIndex + 1]
  IN IF ~HasTemplate(config, port) THEN <<>>
     ELSE LET t == config.templates[port.template]
              ids == {v \in DOMAIN t : t[v] = "pvid"}
          IN IF ids = {} THEN <<>>
             ELSE <<PvidRequest(sw, portIndex, CHOOSE v \in ids : \A w \in ids : v <= w)>>

PvidRequestsOfPort(config, sw, portIndex) ==
  LET port == sw.ports[portIndex + 1]
  IN IF ~HasTemplate(config, port) THEN <<>>
     ELSE LET vs == PvidVlansOfPort(config, config.templates[port.template])
          IN [k \in 1..Len(vs) |-> PvidRequest(sw, portIndex, vs[k].id)]

PvidRequests(config, sw) ==
  Flatten([i \in 1..Len(sw.ports) |-> PvidRequestsOfPort(config, sw, i - 1)])

\* the PVID pass ahead of the membership pass
SwitchRequests_PvidFirst(config, sw) ==
  PvidRequests(config, sw) \o MembershipRequests(config, sw)

SwitchRequests(config, sw) ==
  MembershipRequests(config, sw) \o PvidRequests(config, sw)

\* the outer loop walking the switches from the last to the first
generateHttpRequests_LastSwitchFirst(config) ==
  [k \in 1..Len(config.switches) |->
     LET sw == config.switches[Len(config.switches) + 1 - k]
     IN [switch |-> sw.key,
         address |-> sw.address,
         requests |-> SwitchRequests(config, sw)]]

generateHttpRequests(config) ==
  [k \in 1..Len(config.switches) |->
     [switch |-> config.switches[k].key,
      address |-> config.switches[k].address,
      requests |-> SwitchRequests(config, config.switches[k])]]

\* ------------------------------------------------------------------------
\* transformVlans
\* ------------------------------------------------------------------------
\* the status transformVlans stores for a port in the view of a VLAN
MembershipStatus(config, port, vlanId) ==
  IF ~HasTemplate(config, port) THEN "not-member"
  ELSE LET status == TemplateStatus(config.templates[port.template], vlanId)
       IN IF status = "pvid" \/ status = "tagged" THEN status ELSE "not-member"

\* the ports object of one VLAN: a property per port name, holding what the
\* last port of that name assigned
PortsView(config, sw, vlanId) ==
  [n \in {sw.ports[i].name : i \in 1..Len(sw.ports)} |->
     LET last == CHOOSE i \in 1..Len(sw.ports) :
                   /\ sw.ports[i].name = n
                   /\ \A j \in i + 1..Len(sw.ports) : sw.ports[j].name # n
     IN MembershipStatus(config, sw.ports[last], vlanId)]

transformVlans(config) ==
  [k \in 1..Len(config.switches) |->
     LET sw == config.switches[k]
         entries == ObjectEntries(config.vlans)
     IN [switch |-> sw.key,
         name |-> sw.name,
         address |-> sw.address,
         vlans |-> [m \in 1..Len(entries) |->
                      [vlanId |-> entries[m].id,
                       vlanName |-> entries[m].name,
                       ports |-> PortsView(config, sw, entries[m].id)]]]]

\* ------------------------------------------------------------------------
\* State
\* ------------------------------------------------------------------------
VARIABLES
  config,          \* the validated configuration (parseResult.data)
  switchFilter,    \* --switch arguments
  vlanFilter,      \* --vlan arguments
  http,            \* --http
  execute,         \* --execute
  save,            \* --save
  pc,              \* position of the handler
  filteredConfig,  \* result of filterConfig
  cookies,         \* the cookies map filled by the login loop
  httpRequests,    \* result of generateHttpRequests
  si,              \* index of the switch the execute or save loop is at
  ri,              \* index of the next request of that switch
  sent,            \* requests handed to executeHttpRequest, in issue order
  succeeded,       \* number of results reported as success
  failed,          \* number of results reported as failure
  lastResult,      \* result of the latest executeHttpRequest call
  conn,            \* the TCP connection of the latest customFetch call
  exitCode,        \* exit status of the process, None while it runs
  jsonView,        \* result of transformVlans
  stream,          \* the segments a switch delivers before it closes
  fetched,         \* what customFetch made of the stream
  scrapes,         \* switch-stats: the fetchStats promise of each switch
  finished,        \* switch-stats: the scrapes in the order they settled, each the
                   \* index of its switch and what it met
  metrics          \* switch-stats: the lines collectMetrics returns

vars == <<config, switchFilter, vlanFilter, http, execute, save, pc, filteredConfig,
          cookies, httpRequests, si, ri, sent, succeeded, failed, lastResult, conn, exitCode,
          jsonView, stream, fetched, scrapes, finished, metrics>>

\* the state of switch-stats
statsVars == <<scrapes, finished, metrics>>

None == "none"

\* fetched before a call of customFetch
NoResponse == [thrown |-> FALSE, error |-> "no call"]

\* lastResult before the first call of executeHttpRequest
NoResult == [thrown |-> FALSE, success |-> FALSE, status |-> 0, error |-> "no request"]

\* ------------------------------------------------------------------------
\* Configurations
\* ------------------------------------------------------------------------
VlanMaps(ids) == {[i \in 1..Len(s) |-> [id |-> s[i], name |-> VlanNameOf[s[i]]]] :
                    s \in InjSeqsUpTo(ids, MaxVlans)}

\* the template references of the ports of n switches that have at most p
\* ports together
RECURSIVE LayoutsOf(_, _, _)
LayoutsOf(refs, n, p) ==
  IF n = 0 THEN {<<>>}
  ELSE UNION {{<<h>> \o t : t \in LayoutsOf(refs, n - 1, p - Len(h))} : h \in SeqsUpTo(refs, p)}

Layouts(refs) == UNION {LayoutsOf(refs, n, MaxPorts) : n \in 0..MaxSwitches}

MakeSwitch(k, refs) ==
  [key |-> SwitchKeys[k],
   name |-> "Switch " \o ToString(k),
   address |-> AddressOf[SwitchKeys[k]],
   auth |-> AuthOf[SwitchKeys[k]],
   ports |-> [i \in 1..Len(refs) |-> [name |-> "ge" \o ToString(i), template |-> refs[i]]]]

MakeConfig(vlans, layout) ==
  [vlans |-> vlans,
   templates |-> Templates,
   switches |-> [k \in 1..Len(layout) |-> MakeSwitch(k, layout[k])]]

Configs(ids, refs) == {MakeConfig(v, l) : v \in VlanMaps(ids), l \in Layouts(refs)}

\* --switch and --vlan arguments of a run
FilterChoices ==
  {[switch |-> <<>>, vlan |-> <<>>],
   [switch |-> <<"sw1">>, vlan |-> << <<"2", "0">> >>],
   [switch |-> <<"sw2", "sw9">>, vlan |-> << <<"d", "A">>, <<"5">> >>]}

EmptyConfig == [vlans |-> <<>>, templates |-> <<>>, switches |-> <<>>]

InitCommon ==
  /\ pc = "start"
  /\ filteredConfig = EmptyConfig
  /\ cookies = <<>>
  /\ httpRequests = <<>>
  /\ si = 1
  /\ ri = 1
  /\ sent = <<>>
  /\ succeeded = 0
  /\ failed = 0
  /\ lastResult = NoResult
  /\ conn = [opened |-> 0, closed |-> 0]
  /\ exitCode = None
  /\ jsonView = <<>>
  /\ fetched = NoResponse
  /\ scrapes = <<>>
  /\ finished = <<>>
  /\ metrics = <<>>

\* ------------------------------------------------------------------------
\* The compiler alone: filterConfig, then generateHttpRequests, applied to
\* every configuration and filter of the input sets (what --http displays)
\* ------------------------------------------------------------------------
InitCompile ==
  /\ config \in Configs(VlanIds, TemplateRefs)
  /\ \E f \in FilterChoices : switchFilter = f.switch /\ vlanFilter = f.vlan
  /\ http = TRUE
  /\ execute = FALSE
  /\ save = FALSE
  /\ stream = <<>>
  /\ InitCommon

Compile ==
  /\ pc = "start"
  /\ UNCHANGED statsVars
  /\ filteredConfig' = filterConfig(config, switchFilter, vlanFilter)
  /\ httpRequests' = generateHttpRequests(filteredConfig')
  /\ jsonView' = transformVlans(filteredConfig')
  /\ pc' = "generated"
  /\ UNCHANGED <<config, switchFilter, vlanFilter, http, execute, save, cookies,
                 si, ri, sent, succeeded, failed, lastResult, conn, exitCode,
                 stream, fetched>>

NextCompile == Compile

SpecCompile == InitCompile /\ [][NextCompile]_vars

\* ------------------------------------------------------------------------
\* filterConfig alone, applied to every configuration of the input sets and
\* to --vlan and --switch arguments of every shape parseInt, toLowerCase and
\* includes tell apart
\* ------------------------------------------------------------------------
\* --vlan arguments: a decimal id (also the name of VLAN 5), an id followed
\* by a letter, an id in hexadecimal, an id after a blank, a name in another
\* case, the beginning of a name, a name with characters that are no letters
VlanFilterLists ==
  {<<>>,
   << <<"1", "0">> >>,
   << <<"1", "0", "x">> >>,
   << <<"0", "x", "1", "4">> >>,
   << <<" ", "5">> >>,
   << <<"d", "A">> >>,
   << <<"D">> >>,
   << <<"A", "&", " ">> >>,
   << <<"D">>, <<"2", "0">> >>,
   << <<"d", "a">>, <<"5">> >>}

\* --switch arguments: a key, a key in another case, the beginning of a key,
\* keys of which one is not in the config
SwitchFilterLists ==
  {<<>>, <<"sw1">>, <<"SW1">>, <<"sw">>, <<"sw2", "sw9">>, <<"sw2", "sw1">>}

FilterTemplateRefs == {"p10"}

InitFilter ==
  /\ config \in Configs(VlanIds, FilterTemplateRefs)
  /\ switchFilter \in SwitchFilterLists
  /\ vlanFilter \in VlanFilterLists
  /\ http = FALSE
  /\ execute = FALSE
  /\ save = FALSE
  /\ stream = <<>>
  /\ InitCommon

Filter ==
  /\ pc = "start"
  /\ UNCHANGED statsVars
  /\ filteredConfig' = filterConfig(config, switchFilter, vlanFilter)
  /\ pc' = "filtered"
  /\ UNCHANGED <<config, switchFilter, vlanFilter, http, execute, save, cookies,
                 httpRequests, si, ri, sent, succeeded, failed, lastResult, conn,
                 exitCode, jsonView, stream, fetched>>

NextFilter == Filter

SpecFilter == InitFilter /\ [][NextFilter]_vars

\* ------------------------------------------------------------------------
\* customFetch and executeHttpRequest
\* ------------------------------------------------------------------------
\* What the network does to one customFetch call.
StatusCodes == {200, 204, 500}

NetBehaviours ==
  {[kind |-> k, status |-> 0] :
     k \in {"connectFails", "writeFails", "readFails", "emptyRead", "badStatusLine", "hangs"}}
  \cup {[kind |-> "response", status |-> c] : c \in StatusCodes}

\* the connection of a call: Deno.connect resolved or not, and whether the
\* call reached conn.close(), which follows the read and precedes the
\* checks of what was read
Connection(b) ==
  [opened |-> IF b.kind = "connectFails" THEN 0 ELSE 1,
   closed |-> IF b.kind \in {"emptyRead", "badStatusLine", "response"} THEN 1 ELSE 0]

\* the call never settles: the peer accepts and stays silent
NeverSettles(b) == b.kind = "hangs"

\* customFetch: the response object, or the error thrown
customFetch(b) ==
  CASE b.kind = "connectFails" -> [thrown |-> TRUE, error |-> "Connection refused"]
    [] b.kind = "writeFails" -> [thrown |-> TRUE, error |-> "Broken pipe"]
    [] b.kind = "readFails" -> [thrown |-> TRUE, error |-> "Connection reset"]
    [] b.kind = "emptyRead" -> [thrown |-> TRUE, error |-> "No response from server"]
    [] b.kind = "badStatusLine" -> [thrown |-> TRUE, error |-> "Invalid HTTP response"]
    [] b.kind = "response" ->
         [thrown |-> FALSE, ok |-> (b.status >= 200 /\ b.status < 300), status |-> b.status]

\* executeHttpRequest without its try/catch: the error of customFetch
\* reaches the caller
executeHttpRequest_NoCatch(b) ==
  LET response == customFetch(b)
  IN IF response.thrown
     THEN [thrown |-> TRUE, success |-> FALSE, status |-> 0, error |-> response.error]
     ELSE [thrown |-> FALSE, success |-> response.ok, status |-> response.status,
           error |-> ""]

\* executeHttpRequest: try { customFetch } catch { success: false }; it
\* never throws itself
executeHttpRequest(b) ==
  LET response == customFetch(b)
  IN IF response.thrown
     THEN [thrown |-> FALSE, success |-> FALSE, status |-> 0, error |-> response.error]
     ELSE [thrown |-> FALSE, success |-> response.ok, status |-> response.status,
           error |-> ""]

\* ------------------------------------------------------------------------
\* customFetch on the bytes of a response.  A response text is a sequence
\* of one-character strings; the switch delivers it in segments and closes.
\* ------------------------------------------------------------------------
CRLF == <<"\r", "\n">>

\* String.prototype.indexOf from a 1-based position: 0 when pat does not
\* occur
IndexOf(s, pat, from) ==
  LET hits == {i \in from..Len(s) - Len(pat) + 1 : SubSeq(s, i, i + Len(pat) - 1) = pat}
  IN IF hits = {} THEN 0 ELSE CHOOSE i \in hits : \A j \in hits : i <= j

\* String.prototype.split with a separator string
RECURSIVE Split(_, _)
Split(s, sep) ==
  LET at == IndexOf(s, sep, 1)
  IN IF at = 0 THEN <<s>>
     ELSE <<SubSeq(s, 1, at - 1)>> \o Split(SubSeq(s, at + Len(sep), Len(s)), sep)

\* Array.prototype.join with a separator string
RECURSIVE Join(_, _)
Join(parts, sep) ==
  IF parts = <<>> THEN <<>>
  ELSE IF Len(parts) = 1 THEN parts[1]
  ELSE parts[1] \o sep \o Join(Tail(parts), sep)

IsDigit(c) == c \in Range(DigitChars)

\* what the dot of a regular expression does not match
IsLineTerminator(c) == c \in {"\r", "\n"}

\* \d+ and .+ from position p on: the length of the longest run of digits,
\* and of characters that are no line terminators
RECURSIVE DigitRun(_, _)
DigitRun(s, p) == IF p <= Len(s) /\ IsDigit(s[p]) THEN 1 + DigitRun(s, p + 1) ELSE 0

RECURSIVE TextRun(_, _)
TextRun(s, p) == IF p <= Len(s) /\ ~IsLineTerminator(s[p]) THEN 1 + TextRun(s, p + 1) ELSE 0

HttpOnePoint == <<"H", "T", "T", "P", "/", "1", ".">>

\* /HTTP\/1\.\d (\d+) (.+)/ matches the line at position p
StatusMatchesAt(line, p) ==
  LET d == DigitRun(line, p + 9)
  IN /\ p + 8 <= Len(line)
     /\ SubSeq(line, p, p + 6) = HttpOnePoint
     /\ IsDigit(line[p + 7])
     /\ line[p + 8] = " "
     /\ d >= 1
     /\ p + 9 + d <= Len(line)
     /\ line[p + 9 + d] = " "
     /\ TextRun(line, p + 10 + d) >= 1

\* statusLine.match(...): the match is not anchored, the leftmost position
\* wins; 0 when there is no match
StatusMatch(line) ==
  LET hits == {p \in 1..Len(line) : StatusMatchesAt(line, p)}
  IN IF hits = {} THEN 0 ELSE CHOOSE p \in hits : \A q \in hits : p <= q

RECURSIVE DecimalOf(_)
DecimalOf(digits) ==
  IF digits = <<>> THEN 0
  ELSE 10 * DecimalOf(SubSeq(digits, 1, Len(digits) - 1)) + DigitVal(digits[Len(digits)])

\* the header loop: the lines up to the first empty one, each split at
\* ": "; a line without ": " or with an empty key sets nothing
RECURSIVE HeaderPairs(_)
HeaderPairs(headerLines) ==
  IF headerLines = <<>> \/ Head(headerLines) = <<>> THEN <<>>
  ELSE LET parts == Split(Head(headerLines), <<":", " ">>)
       IN (IF parts[1] # <<>> /\ Len(parts) > 1
           THEN <<[key |-> toLowerCase(parts[1]), value |-> Join(Tail(parts), <<":", " ">>)]>>
           ELSE <<>>)
          \o HeaderPairs(Tail(headerLines))

\* the Map the pairs are set into: the last value set for a key stays
HeaderMap(pairs) ==
  [k \in {pairs[i].key : i \in 1..Len(pairs)} |->
     LET last == CHOOSE i \in 1..Len(pairs) :
                   /\ pairs[i].key = k
                   /\ \A j \in i + 1..Len(pairs) : pairs[j].key # k
     IN pairs[last].value]

\* customFetch from the decoded responseText on: the response object, or
\* the error thrown
ResponseOf(responseText) ==
  LET lines == Split(responseText, CRLF)
      statusLine == lines[1]
      at == StatusMatch(statusLine)
      d == DigitRun(statusLine, at + 9)
      status == DecimalOf(SubSeq(statusLine, at + 9, at + 8 + d))
      textLen == TextRun(statusLine, at + 10 + d)
      bodyStartIndex == IndexOf(responseText, CRLF \o CRLF, 1)
  IN IF at = 0
     THEN [thrown |-> TRUE, error |-> "Invalid HTTP response"]
     ELSE [thrown |-> FALSE,
           ok |-> (status >= 200 /\ status < 300),
           status |-> status,
           statusText |-> SubSeq(statusLine, at + 10 + d, at + 9 + d + textLen),
           headers |-> HeaderMap(HeaderPairs(Tail(lines))),
           body |-> IF bodyStartIndex > 0
                    THEN SubSeq(responseText, bodyStartIndex + 4, Len(responseText))
                    ELSE <<>>]

\* the one conn.read of the call: the bytes of the first segment, which fit
\* the buffer of 8192 bytes, or nothing when the switch closed at once
FirstRead(segments) == IF segments = <<>> THEN <<>> ELSE segments[1]

\* customFetch from conn.read on
ReadResponse(segments) ==
  IF Len(FirstRead(segments)) = 0
  THEN [thrown |-> TRUE, error |-> "No response from server"]
  ELSE ResponseOf(FirstRead(segments))

\* what the segments amount to for the caller of customFetch
BehaviourOf(segments) ==
  LET response == ReadResponse(segments)
  IN IF Len(FirstRead(segments)) = 0 THEN [kind |-> "emptyRead", status |-> 0]
     ELSE IF response.thrown THEN [kind |-> "badStatusLine", status |-> 0]
     ELSE [kind |-> "response", status |-> response.status]

\* the responses of a switch: well formed with header and body, an error
\* status without header and body, a status line and a header that no blank
\* line follows, a status line of another protocol version, a well formed
\* response without body
Http11 == HttpOnePoint \o <<"1">>

ServerHeader == <<"S", "e", "r", "v", "e", "r", ":", " ", "x">>

ResponseTexts ==
  {Http11 \o <<" ", "2", "0", "0", " ", "O", "K">> \o CRLF \o ServerHeader \o CRLF \o CRLF
     \o <<"o", "k">>,
   HttpOnePoint \o <<"0", " ", "5", "0", "0", " ", "E", "r", "r">> \o CRLF \o CRLF,
   Http11 \o <<" ", "2", "0", "0", " ", "O", "K">> \o CRLF \o ServerHeader,
   <<"H", "T", "T", "P", "/", "2", " ", "2", "0", "0", " ", "O", "K">> \o CRLF \o CRLF,
   Http11 \o <<" ", "2", "0", "4", " ", "N", "o">> \o CRLF \o CRLF}

\* the ways a response reaches the socket: in one segment, in two segments
\* cut at any byte, or not at all
Streams ==
  {<<>>}
  \cup {<<t>> : t \in ResponseTexts}
  \cup UNION {{<<SubSeq(t, 1, c), SubSeq(t, c + 1, Len(t))>> : c \in 1..Len(t) - 1} :
              t \in ResponseTexts}

\* one call of executeHttpRequest against every stream of the input set
InitFetch ==
  /\ config = EmptyConfig
  /\ switchFilter = <<>>
  /\ vlanFilter = <<>>
  /\ http = TRUE
  /\ execute = TRUE
  /\ save = FALSE
  /\ stream \in Streams
  /\ InitCommon

Fetch ==
  /\ pc = "start"
  /\ UNCHANGED statsVars
  /\ fetched' = ReadResponse(stream)
  /\ conn' = Connection(BehaviourOf(stream))
  /\ lastResult' = executeHttpRequest(BehaviourOf(stream))
  /\ pc' = "fetched"
  /\ UNCHANGED <<config, switchFilter, vlanFilter, http, execute, save, filteredConfig,
                 cookies, httpRequests, si, ri, sent, succeeded, failed, exitCode,
                 jsonView, stream>>

NextFetch == Fetch

SpecFetch == InitFetch /\ [][NextFetch]_vars

\* ------------------------------------------------------------------------
\* The command handler
\* ------------------------------------------------------------------------
\* the flag checks without the checks of the JSON branch
FlagError_HttpBranchOnly(h, x, s) ==
  IF h /\ s /\ ~x THEN "--save requires --execute flag" ELSE None

\* the flag checks of the handler: the message of the usage error, or None
FlagError(h, x, s) ==
  IF h THEN (IF s /\ ~x THEN "--save requires --execute flag" ELSE None)
  ELSE IF x THEN "--execute requires --http flag"
  ELSE IF s THEN "--save requires --execute flag"
  ELSE None

\* a login loop that stores the cookie of the first switch for every switch
LoginAll_CookieOfFirstSwitch(cfg) ==
  LET keys == {cfg.switches[k].key : k \in 1..Len(cfg.switches)}
  IN [key \in keys |-> cfg.switches[1].auth.user \o "=" \o cfg.switches[1].auth.resp]

\* loginToSwitch for every switch of the filtered config
LoginAll(cfg) ==
  LET keys == {cfg.switches[k].key : k \in 1..Len(cfg.switches)}
  IN [key \in keys |-> LET sw == CHOOSE w \in Range(cfg.switches) : w.key = key
                       IN sw.auth.user \o "=" \o sw.auth.resp]

\* position of the execute loop: the first request at or after request r of
\* switch s, stepping over switches without requests
RECURSIVE LoopPos(_, _, _)
LoopPos(reqs, s, r) ==
  IF s > Len(reqs) THEN [si |-> s, ri |-> 1]
  ELSE IF r <= Len(reqs[s].requests) THEN [si |-> s, ri |-> r]
  ELSE LoopPos(reqs, s + 1, 1)

SaveRequest(sw, cookieMap) ==
  [method |-> "POST",
   url |-> SaveUrl,
   headers |-> [Host |-> sw.address,
                UserAgent |-> "curl/8.7.1",
                Accept |-> "*/*",
                Cookie |-> IF sw.key \in DOMAIN cookieMap /\ cookieMap[sw.key] # ""
                           THEN cookieMap[sw.key]
                           ELSE sw.auth.user \o "=" \o sw.auth.resp,
                ContentLength |-> "0",
                ContentType |-> "application/x-www-form-urlencoded"],
   body |-> <<>>]

\* a save loop that runs only when no command has failed
SaveWanted_OnlyAfterSuccess(s, bad) == s /\ bad = 0

\* if (save): the save loop runs when --save is set, whatever number of
\* commands has failed
SaveWanted(s, bad) == s

\* where the handler goes when the execute loop is over
AfterExecute(reqs, s, bad) ==
  IF SaveWanted(s, bad) /\ Len(reqs) > 0 THEN "save" ELSE "done"

\* the inputs of the runs of the handler: what it executes depends on the
\* config only through the number of commands of each switch
RunVlanIds == {10, 20}
RunTemplateRefs == {"p10"}

Init ==
  /\ config \in Configs(RunVlanIds, RunTemplateRefs)
  /\ \E f \in FilterChoices : switchFilter = f.switch /\ vlanFilter = f.vlan
  /\ http \in BOOLEAN
  /\ execute \in BOOLEAN
  /\ save \in BOOLEAN
  /\ stream = <<>>
  /\ InitCommon

\* readFile rejects, or the schema does not validate: exit(1)
LoadFails ==
  /\ pc = "start"
  /\ UNCHANGED statsVars
  /\ pc' = "exit"
  /\ exitCode' = 1
  /\ UNCHANGED <<config, switchFilter, vlanFilter, http, execute, save, filteredConfig,
                 cookies, httpRequests, si, ri, sent, succeeded, failed, lastResult,
                 conn, jsonView, stream, fetched>>

\* the handler from its start to the first request, or to its end when
\* nothing is executed
Start ==
  /\ pc = "start"
  /\ UNCHANGED statsVars
  /\ filteredConfig' = filterConfig(config, switchFilter, vlanFilter)
  /\ UNCHANGED <<config, switchFilter, vlanFilter, http, execute, save, sent, succeeded,
                 failed, lastResult, conn, stream, fetched>>
  /\ IF FlagError(http, execute, save) # None
     THEN /\ pc' = "exit"
          /\ exitCode' = 1
          /\ UNCHANGED <<cookies, httpRequests, si, ri, jsonView>>
     ELSE IF ~http
     THEN /\ jsonView' = transformVlans(filteredConfig')
          /\ pc' = "done"
          /\ exitCode' = 0
          /\ UNCHANGED <<cookies, httpRequests, si, ri>>
     ELSE /\ cookies' = IF execute THEN LoginAll(filteredConfig') ELSE <<>>
          /\ UNCHANGED jsonView
          /\ httpRequests' = generateHttpRequests(filteredConfig')
          /\ IF execute
             THEN LET pos == LoopPos(httpRequests', 1, 1)
                  IN IF pos.si <= Len(httpRequests')
                     THEN /\ pc' = "execute"
                          /\ si' = pos.si
                          /\ ri' = pos.ri
                          /\ exitCode' = None
                     ELSE /\ pc' = AfterExecute(httpRequests', save, failed)
                          /\ si' = 1
                          /\ ri' = 1
                          /\ exitCode' = IF pc' = "done" THEN 0 ELSE None
             ELSE /\ pc' = "done"
                  /\ exitCode' = 0
                  /\ UNCHANGED <<si, ri>>

\* one turn of the execute loop: executeHttpRequest on the request the loop
\* is at, the report of its result, and the loop control up to the next call
ExecuteRequest ==
  /\ pc = "execute"
  /\ UNCHANGED statsVars
  /\ \E b \in NetBehaviours :
       LET switchReqs == httpRequests[si]
           req == switchReqs.requests[ri]
       IN /\ sent' = Append(sent, [switch |-> switchReqs.switch,
                                   address |-> switchReqs.address, req |-> req])
          /\ conn' = Connection(b)
          /\ IF NeverSettles(b)
             THEN /\ pc' = "blocked"
                  /\ UNCHANGED <<si, ri, succeeded, failed, lastResult, exitCode>>
             ELSE LET result == executeHttpRequest(b)
                      pos == LoopPos(httpRequests, si, ri + 1)
                  IN IF result.thrown
                     THEN \* the catch of the handler
                          /\ pc' = "exit"
                          /\ exitCode' = 1
                          /\ UNCHANGED <<si, ri, succeeded, failed, lastResult>>
                     ELSE /\ lastResult' = result
                          /\ succeeded' = succeeded + (IF result.success THEN 1 ELSE 0)
                          /\ failed' = failed + (IF result.success THEN 0 ELSE 1)
                          /\ IF pos.si <= Len(httpRequests)
                             THEN /\ pc' = "execute"
                                  /\ si' = pos.si
                                  /\ ri' = pos.ri
                                  /\ exitCode' = None
                             ELSE /\ pc' = AfterExecute(httpRequests, save, failed')
                                  /\ si' = 1
                                  /\ ri' = 1
                                  /\ exitCode' = IF pc' = "done" THEN 0 ELSE None
  /\ UNCHANGED <<config, switchFilter, vlanFilter, http, execute, save, filteredConfig,
                 cookies, httpRequests, jsonView, stream, fetched>>

\* one turn of the save loop
SaveSwitch ==
  /\ pc = "save"
  /\ UNCHANGED statsVars
  /\ \E b \in NetBehaviours :
       LET switchReqs == httpRequests[si]
           switchData == CHOOSE w \in Range(filteredConfig.switches) : w.key = switchReqs.switch
       IN /\ sent' = Append(sent, [switch |-> switchReqs.switch,
                                   address |-> switchReqs.address,
                                   req |-> SaveRequest(switchData, cookies)])
          /\ conn' = Connection(b)
          /\ IF NeverSettles(b)
             THEN /\ pc' = "blocked"
                  /\ UNCHANGED <<si, ri, succeeded, failed, lastResult, exitCode>>
             ELSE LET result == executeHttpRequest(b)
                  IN IF result.thrown
                     THEN \* the catch of the handler
                          /\ pc' = "exit"
                          /\ exitCode' = 1
                          /\ UNCHANGED <<si, ri, succeeded, failed, lastResult>>
                     ELSE /\ lastResult' = result
                          /\ succeeded' = succeeded + (IF result.success THEN 1 ELSE 0)
                          /\ failed' = failed + (IF result.success THEN 0 ELSE 1)
                          /\ ri' = 1
                          /\ IF si < Len(httpRequests)
                             THEN /\ pc' = "save"
                                  /\ si' = si + 1
                                  /\ exitCode' = None
                             ELSE /\ pc' = "done"
                                  /\ si' = 1
                                  /\ exitCode' = 0
  /\ UNCHANGED <<config, switchFilter, vlanFilter, http, execute, save, filteredConfig,
                 cookies, httpRequests, jsonView, stream, fetched>>

Next == LoadFails \/ Start \/ ExecuteRequest \/ SaveSwitch

Spec == Init /\ [][Next]_vars

\* the handler is a single sequential task: it always takes its next step
FairSpec == Spec /\ WF_vars(Next)

\* ------------------------------------------------------------------------
\* switch-stats.ts: loadConfig, fetchStats and collectMetrics.  A line of
\* the output is the record of its leading word, the switch name that
\* follows it and the remainder of the line.
\* ------------------------------------------------------------------------
\* loadConfig: the switches of the document in the order of Object.entries
loadConfig(doc) ==
  [timeoutMs |-> 10000,
   cacheMs |-> 55000,
   switches |-> [k \in 1..Len(doc.switches) |->
                   [name |-> doc.switches[k].key,
                    address |-> doc.switches[k].address,
                    cookie |-> doc.switches[k].auth.user \o "=" \o doc.switches[k].auth.resp,
                    ports |-> [i \in 1..Len(doc.switches[k].ports) |->
                                 doc.switches[k].ports[i].name]]]]

\* rows of the statistics table: the header row, a port that is up, a port
\* that is down
HeaderRow == [cells |-> 3, state |-> "State", linkStatus |-> "Link Status",
              txGood |-> "", txBad |-> "", rxGood |-> "", rxBad |-> ""]

UpRow == [cells |-> 7, state |-> "Enable", linkStatus |-> "Link Up",
          txGood |-> "12", txBad |-> "0", rxGood |-> "34", rxBad |-> "1"]

DownRow == [cells |-> 7, state |-> "Disable", linkStatus |-> "Link Down",
            txGood |-> "0", txBad |-> "0", rxGood |-> "0", rxBad |-> "0"]

\* what one scrape of a switch meets: httpGet rejects (connection refused,
\* the timeout of timeouted, a response without body), or it returns a page
\* that names login.cgi, that the DOM parser returns no document for, that
\* has no row of seven cells, or that has port rows; or the DOM parser
\* throws, which fetchStats does not catch
ScrapeOutcomes ==
  {[kind |-> "rejects", msg |-> m, loginCgi |-> FALSE, doc |-> FALSE, rows |-> <<>>] :
     m \in {"Connection refused", "timeout", "no HTTP body"}}
  \cup {[kind |-> "html", msg |-> "", loginCgi |-> TRUE, doc |-> TRUE, rows |-> <<>>],
         [kind |-> "html", msg |-> "", loginCgi |-> FALSE, doc |-> FALSE, rows |-> <<>>],
         [kind |-> "html", msg |-> "", loginCgi |-> FALSE, doc |-> TRUE, rows |-> <<HeaderRow>>],
         [kind |-> "html", msg |-> "", loginCgi |-> FALSE, doc |-> TRUE,
          rows |-> <<HeaderRow, UpRow>>],
         [kind |-> "html", msg |-> "", loginCgi |-> FALSE, doc |-> TRUE,
          rows |-> <<HeaderRow, UpRow, DownRow>>],
         [kind |-> "domThrows", msg |-> "TypeError", loginCgi |-> FALSE, doc |-> FALSE,
          rows |-> <<>>]}

ErrorLine(sw, rest) == [kind |-> "# ERROR", switch |-> sw.name, rest |-> rest]

\* the line of the row that is the port at the 0-based portIndex
PortLine(sw, row, portIndex) ==
  LET portName == IF portIndex < Len(sw.ports) THEN sw.ports[portIndex + 1]
                  ELSE "port" \o ToString(portIndex + 1)
      linkUp == IF row.linkStatus = "Link Up" THEN 1 ELSE 0
  IN [kind |-> "switch_port",
      switch |-> sw.name,
      rest |-> ",host=" \o sw.address \o ",port=" \o portName
               \o " state=\"" \o row.state \o "\",link_up=" \o ToString(linkUp)
               \o "i,tx_good=" \o row.txGood \o "i,tx_bad=" \o row.txBad
               \o "i,rx_good=" \o row.rxGood \o "i,rx_bad=" \o row.rxBad \o "i"]

\* the loop over the rows: rows that do not have seven cells are skipped
PortLines(sw, rows) ==
  LET portRows == SelectSeq(rows, LAMBDA row : row.cells = 7)
  IN [i \in 1..Len(portRows) |-> PortLine(sw, portRows[i], i - 1)]

\* fetchStats: the promise it returns, settled
fetchStats(sw, o) ==
  IF o.kind = "rejects"
  THEN [status |-> "fulfilled", reason |-> "",
        value |-> <<ErrorLine(sw, " (" \o sw.address \o "): " \o o.msg)>>]
  ELSE IF o.loginCgi
  THEN [status |-> "fulfilled", reason |-> "",
        value |-> <<ErrorLine(sw, " (" \o sw.address \o "): auth rejected")>>]
  ELSE IF o.kind = "domThrows"
  THEN [status |-> "rejected", reason |-> o.msg, value |-> <<>>]
  ELSE IF ~o.doc
  THEN [status |-> "fulfilled", reason |-> "",
        value |-> <<ErrorLine(sw, ": failed to parse HTML")>>]
  ELSE IF PortLines(sw, o.rows) = <<>>
  THEN [status |-> "fulfilled", reason |-> "",
        value |-> <<ErrorLine(sw, ": no port rows in response")>>]
  ELSE [status |-> "fulfilled", reason |-> "", value |-> PortLines(sw, o.rows)]

\* a fetchStats promise that has not settled
Pending == [status |-> "pending", reason |-> "", value |-> <<>>]

\* the lines of the result at position i of the results of allSettled
ResultLines(switches, results, i) ==
  IF results[i].status = "fulfilled" THEN results[i].value
  ELSE <<ErrorLine(switches[i], ": " \o results[i].reason)>>

\* lines pushed as the scrapes settle instead of by position
CollectLines_InFinishOrder(switches, results, order) ==
  Flatten([k \in 1..Len(order) |-> ResultLines(switches, results, order[k].switch)])

\* the loop of collectMetrics over the results, which Promise.allSettled
\* returns in the order of config.switches whatever the order they settled
\* in
CollectLines(switches, results, order) ==
  Flatten([i \in 1..Len(results) |-> ResultLines(switches, results, i)])

StatsTemplateRefs == {"p10"}

\* the configuration needs no VLANs for the statistics
InitStats ==
  /\ config \in Configs({}, StatsTemplateRefs)
  /\ switchFilter = <<>>
  /\ vlanFilter = <<>>
  /\ http = FALSE
  /\ execute = FALSE
  /\ save = FALSE
  /\ stream = <<>>
  /\ InitCommon

\* collectMetrics starts fetchStats for every switch at once
StartScrapes ==
  /\ pc = "start"
  /\ scrapes' = [i \in 1..Len(loadConfig(config).switches) |-> Pending]
  /\ pc' = "scraping"
  /\ UNCHANGED <<config, switchFilter, vlanFilter, http, execute, save, filteredConfig,
                 cookies, httpRequests, si, ri, sent, succeeded, failed, lastResult, conn,
                 exitCode, jsonView, stream, fetched, finished, metrics>>

\* the scrape of some switch settles, in any order
ScrapeSettles ==
  /\ pc = "scraping"
  /\ \E i \in 1..Len(scrapes), o \in ScrapeOutcomes :
       /\ scrapes[i] = Pending
       /\ scrapes' = [scrapes EXCEPT ![i] = fetchStats(loadConfig(config).switches[i], o)]
       /\ finished' = Append(finished, [switch |-> i, met |-> o])
  /\ UNCHANGED <<config, switchFilter, vlanFilter, http, execute, save, pc, filteredConfig,
                 cookies, httpRequests, si, ri, sent, succeeded, failed, lastResult, conn,
                 exitCode, jsonView, stream, fetched, metrics>>

\* allSettled resolves when every scrape has settled, and collectMetrics
\* builds its output
CollectMetrics ==
  /\ pc = "scraping"
  /\ \A i \in 1..Len(scrapes) : scrapes[i] # Pending
  /\ metrics' = CollectLines(loadConfig(config).switches, scrapes, finished)
  /\ pc' = "collected"
  /\ UNCHANGED <<config, switchFilter, vlanFilter, http, execute, save, filteredConfig,
                 cookies, httpRequests, si, ri, sent, succeeded, failed, lastResult, conn,
                 exitCode, jsonView, stream, fetched, scrapes, finished>>

NextStats == StartScrapes \/ ScrapeSettles \/ CollectMetrics

SpecStats == InitStats /\ [][NextStats]_vars

\* ------------------------------------------------------------------------
\* Properties of the compiled commands
\* ------------------------------------------------------------------------
Compiled == pc = "generated"

\* the switches of the input of generateHttpRequests, by position
CompiledSwitches == 1..Len(filteredConfig.switches)

MembershipCmds(reqs) == SelectSeq(reqs, LAMBDA r : r.url = MembershipUrl)

PvidCmds(reqs) == SelectSeq(reqs, LAMBDA r : r.url = PvidUrl)

\* the PVID commands of a command list that name the port at portIndex
PvidCmdsOfPort(reqs, portIndex) ==
  SelectSeq(reqs, LAMBDA r : r.url = PvidUrl /\ r.body[1] = "ports=" \o ToString(portIndex))

\* the membership commands of a command list that name the VLAN vid
MembershipCmdsOfVlan(reqs, vid) ==
  SelectSeq(reqs, LAMBDA r : r.url = MembershipUrl /\ r.body[1] = "vid=" \o ToString(vid))

ConfigVlanIds(cfg) == {cfg.vlans[i].id : i \in 1..Len(cfg.vlans)}

\* the VLANs of the config a template marks pvid
PvidMarked(cfg, template) ==
  {v \in ConfigVlanIds(cfg) : v \in DOMAIN template /\ template[v] = "pvid"}

\* the VLANs a template marks pvid, in the config or not
PvidEntries(template) == {v \in DOMAIN template : template[v] = "pvid"}

Resolves(cfg, port) == port.template \in DOMAIN cfg.templates

\* some VLAN of the input did not pass the --vlan filter
VlanDropped == Len(filteredConfig.vlans) < Len(config.vlans)

\* C1: for every switch, VLAN and port whose template name is not a key of
\* config.templates, the membership command of the VLAN carries
\* vlanPort_<index>=2 for the port, and the commands of all VLANs with the
\* parameters of all ports are still emitted.
C1_UnknownTemplateIsNotMember ==
  Compiled =>
    \A k \in CompiledSwitches :
      LET sw == filteredConfig.switches[k]
          reqs == httpRequests[k].requests
      IN \A v \in ConfigVlanIds(filteredConfig) :
           LET cmds == MembershipCmdsOfVlan(reqs, v)
           IN /\ Len(cmds) = 1
              /\ Len(cmds[1].body) = 2 + Len(sw.ports)
              /\ \A i \in 1..Len(sw.ports) :
                   ~Resolves(filteredConfig, sw.ports[i])
                     => cmds[1].body[2 + i] = "vlanPort_" \o ToString(i - 1) \o "=2"

\* C2 as claimed: a port whose template marks exactly one VLAN pvid gets
\* exactly one PVID command, a port whose template marks none gets none,
\* also when the config was narrowed by the filters.
C2_OnePvidPerPvidTemplate ==
  Compiled =>
    \A k \in CompiledSwitches :
      LET sw == filteredConfig.switches[k]
          reqs == httpRequests[k].requests
      IN \A i \in 1..Len(sw.ports) :
           Resolves(filteredConfig, sw.ports[i]) =>
             LET n == Cardinality(PvidEntries(filteredConfig.templates[sw.ports[i].template]))
             IN /\ n = 1 => Len(PvidCmdsOfPort(reqs, i - 1)) = 1
                /\ n = 0 => Len(PvidCmdsOfPort(reqs, i - 1)) = 0

\* C2 amended: a port whose template marks exactly one VLAN of the
\* (filtered) config's VLAN mapping pvid gets exactly one PVID command, and
\* a port whose template marks none of the mapping's VLANs pvid gets none.
C2_OnePvidPerConfiguredPvid ==
  Compiled =>
    \A k \in CompiledSwitches :
      LET sw == filteredConfig.switches[k]
          reqs == httpRequests[k].requests
      IN \A i \in 1..Len(sw.ports) :
           Resolves(filteredConfig, sw.ports[i]) =>
             LET n == Cardinality(PvidMarked(filteredConfig,
                                             filteredConfig.templates[sw.ports[i].template]))
             IN /\ n = 1 => Len(PvidCmdsOfPort(reqs, i - 1)) = 1
                /\ n = 0 => Len(PvidCmdsOfPort(reqs, i - 1)) = 0

\* a narrowed config in which one port has its only pvid VLAN in the
\* mapping and another port has its only pvid VLAN filtered out
C2_Witness ==
  /\ Compiled
  /\ VlanDropped
  /\ \E k \in CompiledSwitches :
       LET sw == filteredConfig.switches[k]
           reqs == httpRequests[k].requests
       IN \E i, j \in 1..Len(sw.ports) :
            /\ Resolves(filteredConfig, sw.ports[i])
            /\ Resolves(filteredConfig, sw.ports[j])
            /\ Cardinality(PvidMarked(filteredConfig,
                                      filteredConfig.templates[sw.ports[i].template])) = 1
            /\ Len(PvidCmdsOfPort(reqs, i - 1)) = 1
            /\ Cardinality(PvidEntries(filteredConfig.templates[sw.ports[j].template])) = 1
            /\ Cardinality(PvidMarked(filteredConfig,
                                      filteredConfig.templates[sw.ports[j].template])) = 0
            /\ Len(PvidCmdsOfPort(reqs, j - 1)) = 0

\* the 0-based port index a PVID command names, among the ports 0..n-1
PvidPortIndex(req, n) == CHOOSE i \in 0..n - 1 : req.body[1] = "ports=" \o ToString(i)

\* C3: in every switch's command list every membership command precedes
\* every PVID command, and the PVID commands are in strictly ascending
\* port index order.
C3_MembershipBeforePvid ==
  Compiled =>
    \A k \in CompiledSwitches :
      LET n == Len(filteredConfig.switches[k].ports)
          reqs == httpRequests[k].requests
      IN /\ \A a, b \in 1..Len(reqs) :
              (reqs[a].url = MembershipUrl /\ reqs[b].url = PvidUrl) => a < b
         /\ \A a, b \in 1..Len(reqs) :
              (reqs[a].url = PvidUrl /\ reqs[b].url = PvidUrl /\ a < b)
                => /\ \E i \in 0..n - 1 : reqs[a].body[1] = "ports=" \o ToString(i)
                   /\ \E i \in 0..n - 1 : reqs[b].body[1] = "ports=" \o ToString(i)
                   /\ PvidPortIndex(reqs[a], n) < PvidPortIndex(reqs[b], n)

\* a command list with two membership and two PVID commands
C3_Witness ==
  /\ Compiled
  /\ \E k \in CompiledSwitches :
       /\ Len(MembershipCmds(httpRequests[k].requests)) = 2
       /\ Len(PvidCmds(httpRequests[k].requests)) = 2

\* the VLAN ids the membership commands of a command list name, in order
MembershipVids(reqs) ==
  [m \in 1..Len(MembershipCmds(reqs)) |-> MembershipCmds(reqs)[m].body[1]]

\* C4 as claimed: one membership command per VLAN of the (filtered)
\* config, in the insertion order of the VLAN mapping.
C4_MembershipInInsertionOrder ==
  Compiled =>
    \A k \in CompiledSwitches :
      MembershipVids(httpRequests[k].requests)
        = [m \in 1..Len(filteredConfig.vlans) |->
             "vid=" \o ToString(filteredConfig.vlans[m].id)]

\* C4 amended: one membership command per VLAN of the (filtered) config, in
\* the iteration order of the VLAN mapping, which is the ascending numeric
\* order of the VLAN ids whatever the insertion order of the mapping.
C4_MembershipInAscendingIdOrder ==
  Compiled =>
    \A k \in CompiledSwitches :
      LET vids == MembershipVids(httpRequests[k].requests)
      IN /\ Len(vids) = Len(filteredConfig.vlans)
         /\ \A v \in ConfigVlanIds(filteredConfig) :
              \E m \in 1..Len(vids) : vids[m] = "vid=" \o ToString(v)
         /\ \A a, b \in 1..Len(vids) :
              a < b => \E v, w \in ConfigVlanIds(filteredConfig) :
                         /\ vids[a] = "vid=" \o ToString(v)
                         /\ vids[b] = "vid=" \o ToString(w)
                         /\ v < w

\* a VLAN mapping whose insertion order is not ascending, compiled
C4_Witness ==
  /\ Compiled
  /\ Len(filteredConfig.vlans) = 2
  /\ filteredConfig.vlans[1].id > filteredConfig.vlans[2].id
  /\ \E k \in CompiledSwitches : Len(MembershipCmds(httpRequests[k].requests)) = 2

\* the escaped names of the VLANs of the input set
EscapedNameOf == (5 :> "10") @@ (10 :> "Da") @@ (20 :> "a%26%20")

ExecuteMode == http /\ execute

Ended == pc \in {"done", "exit"}

\* the call in flight never settles
Blocked == pc = "blocked"

\* the compiled commands of all switches in the order of httpRequests
AllCommands ==
  Flatten([k \in 1..Len(httpRequests) |->
             [r \in 1..Len(httpRequests[k].requests) |->
                [switch |-> httpRequests[k].switch,
                 address |-> httpRequests[k].address,
                 req |-> httpRequests[k].requests[r]]]])

\* the requests issued so far that are compiled commands, and the saves
SentCommands == SelectSeq(sent, LAMBDA e : e.req.url # SaveUrl)

SentSaves == SelectSeq(sent, LAMBDA e : e.req.url = SaveUrl)

\* the commands are attempted in order, none twice, and a run that ends
\* has attempted all of them
AttemptedOnce ==
  /\ Len(SentCommands) <= Len(AllCommands)
  /\ SentCommands = SubSeq(AllCommands, 1, Len(SentCommands))
  /\ (Ended /\ ExecuteMode) => SentCommands = AllCommands

\* every request that settled has a reported result
AllReported == succeeded + failed = Len(sent) - (IF Blocked THEN 1 ELSE 0)

\* a step that settles a request reports the result of that request, a
\* failure for everything but a 2xx status, and does not end the run
\* before the last command
ReportsResult ==
  (sent' # sent /\ pc' # "blocked") =>
     /\ lastResult'.success <=> (lastResult'.status >= 200 /\ lastResult'.status < 300)
     /\ lastResult'.error # "" => ~lastResult'.success
     /\ succeeded' = succeeded + (IF lastResult'.success THEN 1 ELSE 0)
     /\ failed' = failed + (IF lastResult'.success THEN 0 ELSE 1)
     /\ Len(SentCommands') < Len(AllCommands) => pc' = "execute"

C8_FailureExitsNonZero ==
  (Ended /\ ExecuteMode /\ Len(sent) > 0) =>
     /\ failed > 0 => exitCode # 0
     /\ failed = 0 => exitCode = 0

\* the saves issued for the switch with the given key
SavesOf(key) == SelectSeq(sent, LAMBDA e : e.req.url = SaveUrl /\ e.switch = key)

\* the compiled commands of a switch
CommandsOf(key) == SelectSeq(AllCommands, LAMBDA e : e.switch = key)

\* the compiled commands of a switch issued before the k-th request
SentBefore(key, k) ==
  SelectSeq(SubSeq(sent, 1, k - 1), LAMBDA e : e.req.url # SaveUrl /\ e.switch = key)

\* C9: with --execute and --save exactly one POST /save.cgi with an empty
\* body is issued for each switch of the filtered config, after every
\* membership and PVID command of that switch has been attempted, whether
\* they succeeded or not; without --save no save is issued.
C9_OneSavePerSwitch ==
  /\ ~save => SentSaves = <<>>
  /\ \A k \in 1..Len(sent) :
       sent[k].req.url = SaveUrl =>
         /\ sent[k].req.method = "POST"
         /\ sent[k].req.body = <<>>
         /\ sent[k].req.headers.ContentLength = "0"
         /\ \E w \in Range(filteredConfig.switches) :
              w.key = sent[k].switch /\ w.address = sent[k].address
         /\ SentBefore(sent[k].switch, k) = CommandsOf(sent[k].switch)
  /\ \A w \in Range(filteredConfig.switches) : Len(SavesOf(w.key)) <= 1
  /\ (pc = "done" /\ ExecuteMode /\ save) =>
       \A w \in Range(filteredConfig.switches) : Len(SavesOf(w.key)) = 1

\* a finished run with --save over two switches: more results failed than
\* saves were issued, so a compiled command failed, and both saves are out
C9_Witness ==
  /\ pc = "done"
  /\ ExecuteMode
  /\ save
  /\ Len(filteredConfig.switches) = 2
  /\ Len(SentSaves) = 2
  /\ Len(AllCommands) >= 2
  /\ failed > 2

\* save without execute, or execute without the HTTP mode
BadFlags == (save /\ ~execute) \/ (execute /\ ~http)

\* C10: save without execute (HTTP or JSON mode) and execute without HTTP
\* mode end in an error exit, and no TCP connection is opened and no
\* command executed on such a run.
C10_BadFlagsRejected ==
  BadFlags =>
    /\ pc \in {"start", "exit"}
    /\ pc = "exit" => exitCode = 1
    /\ sent = <<>>
    /\ conn.opened = 0
    /\ lastResult = NoResult

\* a run with --save and without --execute in JSON mode that loaded and
\* filtered a config with switches and was rejected
C10_Witness ==
  /\ save
  /\ ~execute
  /\ ~http
  /\ pc = "exit"
  /\ exitCode = 1
  /\ Len(filteredConfig.switches) > 0

\* ------------------------------------------------------------------------
\* Properties of filterConfig
\* ------------------------------------------------------------------------
Filtered == pc = "filtered"

\* a string of decimal digits, and the number it denotes
IsDecimal(f) == f # <<>> /\ \A i \in 1..Len(f) : f[i] \in Range(DigitChars)

RECURSIVE DecimalValue(_)
DecimalValue(f) ==
  IF f = <<>> THEN 0
  ELSE 10 * DecimalValue(SubSeq(f, 1, Len(f) - 1)) + DigitVal(f[Len(f)])

\* the filter string is a numeric string equal to the id of the entry, or
\* equals its name ignoring case
SelectsExactly(e, f) ==
  \/ IsDecimal(f) /\ DecimalValue(f) = e.id
  \/ toLowerCase(e.name) = toLowerCase(f)

\* C11: filterConfig keeps a VLAN iff some VLAN filter string is a numeric
\* string equal to its id or equals its name ignoring case, with no prefix
\* or partial match; it keeps a switch iff its key is equal to some switch
\* filter string; an empty VLAN filter list keeps every VLAN and an empty
\* switch filter list keeps every switch, independently of the other list.
C11_ExactFilterMatch ==
  Filtered =>
    /\ \A e \in Range(config.vlans) :
         e \in Range(filteredConfig.vlans)
           <=> \/ vlanFilter = <<>>
               \/ \E k \in 1..Len(vlanFilter) : SelectsExactly(e, vlanFilter[k])
    /\ \A sw \in Range(config.switches) :
         sw \in Range(filteredConfig.switches)
           <=> \/ switchFilter = <<>>
               \/ \E k \in 1..Len(switchFilter) : sw.key = switchFilter[k]

\* C12: filterConfig returns a config whose templates are the templates of
\* the input, whose VLANs and switches are entries of the input with the
\* id-to-name and key-to-switch bindings of the input, each at most once and
\* every retained switch with its address, auth and ports as they were; the
\* input config is not modified.
C12_FilterKeepsFrame ==
  /\ [](Filtered =>
          /\ filteredConfig.templates = config.templates
          /\ Range(filteredConfig.vlans) \subseteq Range(config.vlans)
          /\ \A i, j \in 1..Len(filteredConfig.vlans) :
               i # j => filteredConfig.vlans[i].id # filteredConfig.vlans[j].id
          /\ \A sw \in Range(filteredConfig.switches) :
               \E w \in Range(config.switches) :
                 /\ w.key = sw.key
                 /\ w.address = sw.address
                 /\ w.auth = sw.auth
                 /\ w.ports = sw.ports
                 /\ w = sw
          /\ \A i, j \in 1..Len(filteredConfig.switches) :
               i # j => filteredConfig.switches[i].key # filteredConfig.switches[j].key)
  /\ [][config' = config]_vars

\* both filters given: a VLAN and a switch were dropped, and a VLAN and a
\* switch with ports were retained
C12_Witness ==
  /\ Filtered
  /\ vlanFilter # <<>>
  /\ switchFilter # <<>>
  /\ Len(filteredConfig.vlans) = 1
  /\ Len(config.vlans) = 2
  /\ Len(filteredConfig.switches) = 1
  /\ Len(config.switches) = 2
  /\ Len(filteredConfig.switches[1].ports) > 0
  /\ config.templates # <<>>

\* ------------------------------------------------------------------------
\* Properties of customFetch within the runs of the handler
\* ------------------------------------------------------------------------
\* the latest call of customFetch has returned or failed
CallSettled == Len(sent) > 0 /\ ~Blocked

\* C13: the TCP connection a customFetch call opened is closed by the time
\* the call returns or fails, on every path: response, write failure, read
\* failure, empty read and malformed response; no call opens a second one.
C13_ConnectionAlwaysClosed ==
  CallSettled =>
    /\ conn.opened <= 1
    /\ conn.closed = conn.opened

\* C14: a command whose switch never answers ends after the per-call
\* timeout with a failed outcome, the later commands are issued, and no
\* command blocks for ever: every batch runs to its end.
C14_BatchAlwaysTerminates == <>Ended

\* ------------------------------------------------------------------------
\* Properties of customFetch on the bytes of a response
\* ------------------------------------------------------------------------
Fetched == pc = "fetched"

\* everything the switch sent before it closed
WholeResponse == Flatten(stream)

\* C15: when the switch delivers its response in several segments, the
\* status, headers and body the call returns are those of the concatenation
\* of all segments, not only of the first segment read.
C15_ReadsUntilEndOfStream ==
  (Fetched /\ Len(stream) > 1) =>
     LET whole == ResponseOf(WholeResponse)
     IN ~whole.thrown =>
          /\ ~fetched.thrown
          /\ fetched.status = whole.status
          /\ fetched.headers = whole.headers
          /\ fetched.body = whole.body

\* the response has no blank line before the end of the stream
NoBlankLine(text) == IndexOf(text, CRLF \o CRLF, 1) = 0

\* the first line of the response does not match HTTP/1.<digit> <code> <text>
NoStatusLine(text) == StatusMatch(Split(text, CRLF)[1]) = 0

\* C16: a response with no blank line before stream end, or whose status
\* line does not match HTTP/1.<digit> <code> <text>, makes customFetch fail
\* with a protocol error, and the executor records the command as failed,
\* never as successful.
C16_MalformedResponseFails ==
  (Fetched /\ stream # <<>> /\ (NoBlankLine(WholeResponse) \/ NoStatusLine(WholeResponse))) =>
     /\ fetched.thrown
     /\ ~lastResult.success
     /\ lastResult.error # ""

\* ------------------------------------------------------------------------
\* Properties of the order of the requests
\* ------------------------------------------------------------------------
\* requests issued that have no outcome yet
InFlight == Len(sent) - (succeeded + failed)

\* position of a switch in the filtered config
SwitchIndex(key) ==
  CHOOSE k \in 1..Len(filteredConfig.switches) : filteredConfig.switches[k].key = key

\* the compiled command list of a switch
CompiledFor(key) ==
  LET k == CHOOSE i \in 1..Len(httpRequests) : httpRequests[i].switch = key
  IN httpRequests[k].requests

\* the requests of the given kind issued so far to a switch, in issue order
IssuedTo(key, saves) ==
  LET es == SelectSeq(sent, LAMBDA e : e.switch = key /\ ((e.req.url = SaveUrl) <=> saves))
  IN [i \in 1..Len(es) |-> es[i].req]

\* the requests went out switch by switch in the order of the config, the
\* saves after the commands
InConfigOrder ==
  \A a, b \in 1..Len(sent) :
    a < b =>
      /\ (sent[a].req.url = SaveUrl) = (sent[b].req.url = SaveUrl)
           => SwitchIndex(sent[a].switch) <= SwitchIndex(sent[b].switch)
      /\ sent[a].req.url = SaveUrl => sent[b].req.url = SaveUrl

\* the commands of each switch went out in the order of its compiled list
InCompiledOrder ==
  \A w \in Range(filteredConfig.switches) :
    LET issued == IssuedTo(w.key, FALSE)
    IN issued # <<>> =>
         /\ Len(issued) <= Len(CompiledFor(w.key))
         /\ issued = SubSeq(CompiledFor(w.key), 1, Len(issued))

\* a request is issued only when no request is in flight
IssuesWhenIdle == sent' # sent => (InFlight = 0 /\ Len(sent') = Len(sent) + 1)

\* C17: the executor issues the requests one at a time: the switches in
\* config order, the commands of a switch in the order the compiler gave
\* them, a request only after the previous one has its outcome, and never
\* two requests in flight.
C17_OneRequestAtATime ==
  /\ [](InConfigOrder /\ InCompiledOrder /\ InFlight \in {0, 1} /\ (InFlight = 1 => Blocked))
  /\ [][IssuesWhenIdle]_vars

\* a finished batch with --save over two switches that have commands each:
\* all commands and both saves went out and have their outcomes
C17_Witness ==
  /\ pc = "done"
  /\ ExecuteMode
  /\ save
  /\ Len(httpRequests) = 2
  /\ \A k \in 1..Len(httpRequests) : Len(httpRequests[k].requests) >= 2
  /\ Len(sent) = Len(AllCommands) + 2
  /\ InFlight = 0

CodeOfStatus(status) ==
  IF status = "pvid" THEN "0" ELSE IF status = "tagged" THEN "1" ELSE "2"

\* C19: transformVlans and generateHttpRequests list the same switches and
\* the same VLANs in the same order, and for every switch, VLAN and port
\* the status of the JSON view corresponds to the code of the membership
\* command at the index of the port: pvid to 0, tagged to 1, not-member
\* to 2.
C19_JsonViewAgreesWithCommands ==
  Compiled =>
    /\ Len(jsonView) = Len(httpRequests)
    /\ \A k \in CompiledSwitches :
         LET sw == filteredConfig.switches[k]
             cmds == MembershipCmds(httpRequests[k].requests)
             view == jsonView[k].vlans
         IN /\ jsonView[k].switch = httpRequests[k].switch
            /\ jsonView[k].address = httpRequests[k].address
            /\ Len(view) = Len(cmds)
            /\ \A m \in 1..Len(view) :
                 /\ cmds[m].body[1] = "vid=" \o ToString(view[m].vlanId)
                 /\ \A i \in 1..Len(sw.ports) :
                      cmds[m].body[2 + i] =
                        "vlanPort_" \o ToString(i - 1) \o "="
                          \o CodeOfStatus(view[m].ports[sw.ports[i].name])

\* ------------------------------------------------------------------------
\* Properties of the headers of the requests
\* ------------------------------------------------------------------------
\* the user=response credential of a switch
CredentialOf(sw) == sw.auth.user \o "=" \o sw.auth.resp

\* the request is addressed to the switch and carries its credential
BelongsTo(req, sw) ==
  /\ req.headers.Host = sw.address
  /\ req.headers.Cookie = CredentialOf(sw)
  /\ \A other \in Range(filteredConfig.switches) :
       other.key # sw.key => req.headers.Cookie # CredentialOf(other)

\* C20: every membership, PVID and save request built for a switch has a
\* Host header equal to the address of that switch and a Cookie equal to
\* its own user=response credential, and is sent to its address; no request
\* carries the credential of another switch, in display mode as well as in
\* execute mode.
C20_RequestsCarryOwnCredential ==
  /\ \A k \in 1..Len(httpRequests) :
       LET sw == filteredConfig.switches[k]
       IN /\ httpRequests[k].switch = sw.key
          /\ httpRequests[k].address = sw.address
          /\ \A r \in Range(httpRequests[k].requests) : BelongsTo(r, sw)
  /\ \A e \in Range(sent) :
       \E sw \in Range(filteredConfig.switches) :
         /\ sw.key = e.switch
         /\ e.address = sw.address
         /\ BelongsTo(e.req, sw)

\* a finished run with --save over two switches: commands and saves went to
\* both, the first and the last request under different credentials
C20_Witness ==
  /\ pc = "done"
  /\ ExecuteMode
  /\ save
  /\ Len(filteredConfig.switches) = 2
  /\ Len(SentSaves) = 2
  /\ Len(SentCommands) >= 2
  /\ sent[1].switch # sent[Len(sent)].switch
  /\ sent[1].req.headers.Cookie # sent[Len(sent)].req.headers.Cookie

\* ------------------------------------------------------------------------
\* Properties of switch-stats
\* ------------------------------------------------------------------------
Collected == pc = "collected"

\* what the scrape of the switch at position i met
MetBy(i) == (CHOOSE f \in Range(finished) : f.switch = i).met

\* the scrape failed: no connection, timeout, no body, login redirect,
\* HTML that gives no document or makes the parser throw, no port rows
ScrapeFailed(o) ==
  \/ o.kind # "html"
  \/ o.loginCgi
  \/ ~o.doc
  \/ \A r \in 1..Len(o.rows) : o.rows[r].cells # 7

\* the lines of the output that name the switch
LinesOf(name) == SelectSeq(metrics, LAMBDA line : line.switch = name)

\* position of the switch of a line in the config
StatsIndex(name) ==
  CHOOSE i \in 1..Len(loadConfig(config).switches) : loadConfig(config).switches[i].name = name

\* C21: whatever subset of the switches fails to be scraped, the output of
\* collectMetrics has the port lines of every other switch and exactly one
\* "# ERROR" line for each failed switch, and the blocks of the switches
\* are in config order whatever order the concurrent scrapes finished in.
C21_FailedScrapesDoNotHideOthers ==
  Collected =>
    LET switches == loadConfig(config).switches
    IN /\ \A i \in 1..Len(switches) :
            LET mine == LinesOf(switches[i].name)
                o == MetBy(i)
            IN IF ScrapeFailed(o)
               THEN Len(mine) = 1 /\ mine[1].kind = "# ERROR"
               ELSE /\ Len(mine) = Cardinality({r \in 1..Len(o.rows) : o.rows[r].cells = 7})
                    /\ \A j \in 1..Len(mine) : mine[j].kind = "switch_port"
       /\ \A line \in Range(metrics) : \E i \in 1..Len(switches) : line.switch = switches[i].name
       /\ \A a, b \in 1..Len(metrics) :
            a < b => StatsIndex(metrics[a].switch) <= StatsIndex(metrics[b].switch)

\* two switches: the scrape of the second finished first and gave two port
\* lines, the scrape of the first timed out afterwards; the error line of
\* the first precedes the port lines of the second
C21_Witness ==
  /\ Collected
  /\ Len(finished) = 2
  /\ finished[1].switch = 2
  /\ finished[2].switch = 1
  /\ finished[2].met.msg = "timeout"
  /\ Len(metrics) = 3
  /\ metrics[1].kind = "# ERROR"
  /\ metrics[2].kind = "switch_port"
  /\ metrics[3].kind = "switch_port"

====
